---- MODULE Spec2Model ----
(***************************************************************************)
(* Model of minesweeper.py: the Minesweeper board, the Sentence class and  *)
(* the MinesweeperAI agent (knowledge base and inference fixed point).     *)
(*                                                                         *)
(* A cell is a pair <<row, column>>.  A Sentence is a record with the four *)
(* fields the class keeps.  The `while updated` loop of update_knowledge   *)
(* runs one iteration per update_pass step: pc = "update" while the loop   *)
(* is running (nothing else is enabled then) and "idle" between calls.     *)
(* The variables from op on record what was called and what a pass saw;    *)
(* no method reads them.                                                   *)
(***************************************************************************)
EXTENDS Integers, Sequences, FiniteSets, TLC

\* ------------------------------------------------------------------ bounds
\* games are played on the grids of at most MaxCells cells, no taller than wide
MaxCells == 6
\* an agent driven by any caller has a grid of at most MaxAgentCells cells
MaxAgentCells == 4
\* the counts a caller other than the board may pass to add_knowledge
MaxCount == 2
\* the number of add_knowledge, mark_mine and mark_safe calls such a caller makes
MaxCalls == 3

grids(n) == { d \in (1 .. n) \X (1 .. n) : d[1] <= d[2] /\ d[1] * d[2] <= n }

VARIABLES
    height,      \* MinesweeperAI.height (and Minesweeper.height)
    width,       \* MinesweeperAI.width  (and Minesweeper.width)
    board,       \* Minesweeper.board: the set of cells whose entry is True
    moves_made,  \* MinesweeperAI.moves_made
    mines,       \* MinesweeperAI.mines
    safes,       \* MinesweeperAI.safes
    knowledge,   \* MinesweeperAI.knowledge: a list of Sentences
    pc,          \* "idle", or "update" while update_knowledge's loop runs
    op,          \* the public method called last
    ret,         \* what the last make_safe_move / make_random_move returned
    calls,       \* number of add_knowledge / mark_mine / mark_safe calls of `Spec`
    dup,         \* the running add_knowledge call was for a played cell
    told,        \* <<cell, count>> of an add_knowledge call, until its loop starts
    tick,        \* whether the running loop has made an odd number of passes
    base,        \* length of knowledge at the pairwise step of the last pass
    mustMines,   \* cells of sentences seen with count = |cells| at a pass start
    mustSafes,   \* cells of sentences seen with count = 0 at a pass start
    subSafes,    \* cells of A - B for the pairs B < A, equal counts, at loop entry
    consistent   \* some mine placement satisfied the agent's state at loop entry

agent == <<moves_made, mines, safes, knowledge>>
vars == <<height, width, board, moves_made, mines, safes, knowledge, pc,
          op, ret, calls, dup, told, tick, base, mustMines, mustSafes, subSafes, consistent>>

\* Python's None, as a value comparable with a cell
None == <<>>

\* ------------------------------------------------------------ grid helpers
\* itertools.product(range(height), range(width))
all_cells(h, w) == (0 .. h - 1) \X (0 .. w - 1)

\* a variant of the bounds test that lets the row `height` and the column `width` in
in_bounds_inclusive(rc, h, w) == 0 <= rc[1] /\ rc[1] <= h /\ 0 <= rc[2] /\ rc[2] <= w

\* the two nested range(cell - 1, cell + 2) loops with the bounds test
in_bounds(rc, h, w) == 0 <= rc[1] /\ rc[1] < h /\ 0 <= rc[2] /\ rc[2] < w

neighbours_of(cell, h, w) ==
    { rc \in (cell[1] - 1 .. cell[1] + 1) \X (cell[2] - 1 .. cell[2] + 1) :
        rc # cell /\ in_bounds(rc, h, w) }

\* ------------------------------------------------------------- Minesweeper
is_mine(cell) == cell \in board

nearby_mines(cell) ==
    Cardinality({ rc \in neighbours_of(cell, height, width) : rc \in board })

\* ---------------------------------------------------------------- Sentence
Sentence(cells, count) ==
    [cells |-> cells, count |-> count, mine_cell |-> {}, safe_cell |-> {}]

\* Sentence.__eq__ (and the != Python derives from it)
Sentence_eq(a, b) == a.cells = b.cells /\ a.count = b.count

\* a variant of known_mines: any sentence with a positive count gives up its cells
known_mines_positive(s) == IF s.count > 0 THEN s.cells ELSE {}

known_mines(s) == IF s.count = Cardinality(s.cells) THEN s.cells ELSE {}

\* a variant of known_safes: tests the number of cells, not the count
known_safes_no_cells(s) == IF Cardinality(s.cells) = 0 THEN s.cells ELSE {}

known_safes(s) == IF s.count = 0 THEN s.cells ELSE {}

\* a variant of Sentence.mark_mine that removes the cell and keeps the count
Sentence_mark_mine_keeps_count(s, cell) ==
    IF cell \in s.cells
    THEN [s EXCEPT !.cells = @ \ {cell},
                   !.mine_cell = @ \cup {cell}]
    ELSE s

\* a variant of Sentence.mark_mine without the test `cell in self.cells`
Sentence_mark_mine_unguarded(s, cell) ==
    [s EXCEPT !.cells = @ \ {cell},
              !.count = @ - 1,
              !.mine_cell = @ \cup {cell}]

Sentence_mark_mine(s, cell) ==
    IF cell \in s.cells
    THEN [s EXCEPT !.cells = @ \ {cell},
                   !.count = @ - 1,
                   !.mine_cell = @ \cup {cell}]
    ELSE s

\* a variant of Sentence.mark_safe that lowers the count as mark_mine does
Sentence_mark_safe_decrements(s, cell) ==
    IF cell \in s.cells
    THEN [s EXCEPT !.cells = @ \ {cell},
                   !.count = @ - 1,
                   !.safe_cell = @ \cup {cell}]
    ELSE s

Sentence_mark_safe(s, cell) ==
    IF cell \in s.cells
    THEN [s EXCEPT !.cells = @ \ {cell},
                   !.safe_cell = @ \cup {cell}]
    ELSE s

\* `x in list` for a list of Sentences: some element is == x
in_list(x, K) == \E i \in 1 .. Len(K) : Sentence_eq(K[i], x)

\* ----------------------------------------------------------- MinesweeperAI
\* the `for sentence in self.knowledge` loops of mark_mine / mark_safe
knowledge_mark_mine(K, cell) == [i \in 1 .. Len(K) |-> Sentence_mark_mine(K[i], cell)]

knowledge_mark_safe(K, cell) == [i \in 1 .. Len(K) |-> Sentence_mark_safe(K[i], cell)]

\* the agent's mutable fields while a method body runs
agent_state(M, S, K, u) == [mines |-> M, safes |-> S, knowledge |-> K, updated |-> u]

\* a variant of MinesweeperAI.mark_mine without self.mines.add(cell)
ai_mark_mine_sentences_only(st, cell) ==
    [st EXCEPT !.knowledge = knowledge_mark_mine(@, cell)]

\* MinesweeperAI.mark_mine
ai_mark_mine(st, cell) ==
    [st EXCEPT !.mines = @ \cup {cell},
               !.knowledge = knowledge_mark_mine(@, cell)]

\* a variant of MinesweeperAI.mark_safe that takes the cell out of mines
ai_mark_safe_unmarks_mine(st, cell) ==
    [st EXCEPT !.mines = @ \ {cell},
               !.safes = @ \cup {cell},
               !.knowledge = knowledge_mark_safe(@, cell)]

\* a variant of MinesweeperAI.mark_safe without self.safes.add(cell)
ai_mark_safe_sentences_only(st, cell) ==
    [st EXCEPT !.knowledge = knowledge_mark_safe(@, cell)]

\* MinesweeperAI.mark_safe
ai_mark_safe(st, cell) ==
    [st EXCEPT !.safes = @ \cup {cell},
               !.knowledge = knowledge_mark_safe(@, cell)]

\* update_knowledge, the collecting loop: new_mines and new_safes
new_mines(K) == UNION { known_mines(K[i]) : i \in 1 .. Len(K) }

new_safes(K) == UNION { known_safes(K[i]) : i \in 1 .. Len(K) }

\* update_knowledge: for mine in new_mines
RECURSIVE for_new_mines(_, _)
for_new_mines(st, todo) ==
    IF todo = {} THEN st
    ELSE LET mine == CHOOSE x \in todo : TRUE
             st1 == IF mine \notin st.mines
                    THEN [ai_mark_mine(st, mine) EXCEPT !.updated = TRUE]
                    ELSE st
         IN  for_new_mines(st1, todo \ {mine})

\* update_knowledge: for safe in new_safes
RECURSIVE for_new_safes(_, _)
for_new_safes(st, todo) ==
    IF todo = {} THEN st
    ELSE LET safe == CHOOSE x \in todo : TRUE
         IN  for_new_safes([ai_mark_safe(st, safe) EXCEPT !.updated = TRUE],
                           todo \ {safe})

\* a variant of the clearing step that keeps every sentence
clear_empty_none(K) == K

\* update_knowledge: clear empty sentences
clear_empty(K) == SelectSeq(K, LAMBDA s : s.cells # {})

\* a variant of the pair test with the subset test turned round
combinable_reversed(s1, s2) ==
    /\ ~Sentence_eq(s1, s2)
    /\ s1.cells \subseteq s2.cells
    /\ s2.cells # {}

\* update_knowledge: the test that lets a pair (sentence_1, sentence_2) combine
combinable(s1, s2) ==
    /\ ~Sentence_eq(s1, s2)
    /\ s2.cells \subseteq s1.cells
    /\ s2.cells # {}

\* a variant of the test on new_count that lets every derived count through
count_accepted_any(new_count) == TRUE

\* a variant of the test on new_count that drops a derived count of 0
count_accepted_positive(new_count) == new_count > 0

\* update_knowledge: the test on new_count
count_accepted(new_count) == new_count >= 0

\* update_knowledge: the two nested loops over self.knowledge; p numbers the
\* pairs in the order the loops visit them
RECURSIVE combine(_, _, _)
combine(K, p, new_sentences) ==
    LET n == Len(K) IN
    IF p >= n * n THEN new_sentences
    ELSE LET s1 == K[(p \div n) + 1]
             s2 == K[(p % n) + 1]
             new_count == s1.count - s2.count
             inferred == Sentence(s1.cells \ s2.cells, new_count)
             take == /\ combinable(s1, s2)
                     /\ count_accepted(new_count)
                     /\ ~in_list(inferred, K)
                     /\ ~in_list(inferred, new_sentences)
         IN  combine(K, p + 1,
                     IF take THEN Append(new_sentences, inferred) ELSE new_sentences)

\* one iteration of update_knowledge's while loop
loop_body(M, S, K) ==
    LET nm == new_mines(K)
        ns == new_safes(K)
        st1 == for_new_mines(agent_state(M, S, K, FALSE), nm)
        st2 == for_new_safes(st1, ns)
        kept == clear_empty(st2.knowledge)
        new_sentences == combine(kept, 0, <<>>)
    IN  [mines |-> st2.mines,
         safes |-> st2.safes,
         kept |-> kept,
         knowledge |-> kept \o new_sentences,
         updated |-> st2.updated \/ new_sentences # <<>>]

\* a variant of add_knowledge that records the move without marking it safe
evidence_move_only(cell, count, MM, M, S, K, h, w) ==
    LET fresh == cell \notin MM
        nb == IF fresh THEN neighbours_of(cell, h, w) ELSE {}
        known_mines_count == Cardinality({ rc \in nb : rc \in M })
        neighbours == { rc \in nb : rc \notin M /\ rc \notin S }
    IN  [moves_made |-> IF fresh THEN MM \cup {cell} ELSE MM,
         safes |-> S,
         knowledge |-> IF neighbours # {}
                       THEN Append(K, Sentence(neighbours, count - known_mines_count))
                       ELSE K]

\* a variant of adjusted_count that forgets the mines already known
adjusted_count_raw(count, known_mines_count) == count

\* add_knowledge: adjusted_count
adjusted_count(count, known_mines_count) == count - known_mines_count

\* add_knowledge, up to the call of update_knowledge
evidence(cell, count, MM, M, S, K, h, w) ==
    LET fresh == cell \notin MM
        S1 == IF fresh THEN S \cup {cell} ELSE S
        nb == IF fresh THEN neighbours_of(cell, h, w) ELSE {}
        known_mines_count == Cardinality({ rc \in nb : rc \in M })
        neighbours == { rc \in nb : rc \notin M /\ rc \notin S1 }
    IN  [moves_made |-> IF fresh THEN MM \cup {cell} ELSE MM,
         safes |-> S1,
         knowledge |-> IF neighbours # {}
                       THEN Append(K, Sentence(neighbours, adjusted_count(count, known_mines_count)))
                       ELSE K]

\* a variant of make_safe_move without the test on moves_made
safe_moves_any(S, MM) == S

\* make_safe_move: the cells the loop over self.safes can return
safe_moves(S, MM) == { move \in S : move \notin MM }

\* a variant of possible_moves that does not take the known mines out
possible_moves_with_mines(MM, M, h, w) == all_cells(h, w) \ MM

\* make_random_move: possible_moves
possible_moves(MM, M, h, w) == (all_cells(h, w) \ MM) \ M

\* ------------------------------------------------- what the observers record
\* cells of the sentences that have count = |cells|
all_mine_cells(K) ==
    UNION { K[i].cells : i \in { j \in 1 .. Len(K) : K[j].count = Cardinality(K[j].cells) } }

\* cells of the sentences that have count = 0
all_safe_cells(K) ==
    UNION { K[i].cells : i \in { j \in 1 .. Len(K) : K[j].count = 0 } }

\* cells of A - B over the pairs with B a non-empty proper subset of A, equal counts
equal_count_rest(K) ==
    UNION { K[p[1]].cells \ K[p[2]].cells :
              p \in { q \in (1 .. Len(K)) \X (1 .. Len(K)) :
                        /\ K[q[2]].cells # {}
                        /\ K[q[2]].cells \subseteq K[q[1]].cells
                        /\ K[q[2]].cells # K[q[1]].cells
                        /\ K[q[1]].count = K[q[2]].count } }

\* some placement of mines agrees with mines, safes and every sentence
satisfiable(M, S, K, h, w) ==
    \E b \in SUBSET all_cells(h, w) :
        /\ M \subseteq b
        /\ S \cap b = {}
        /\ \A i \in 1 .. Len(K) : Cardinality(K[i].cells \cap b) = K[i].count

\* ----------------------------------------------------------------- actions
enter_loop(MM, M, S, K) ==
    /\ pc' = "update"
    /\ tick' = FALSE
    /\ base' = 0
    /\ mustMines' = {}
    /\ mustSafes' = {}
    /\ subSafes' = equal_count_rest(K)
    /\ consistent' = satisfiable(M, S, K, height, width)

add_knowledge(cell, count) ==
    /\ pc = "idle"
    /\ LET e == evidence(cell, count, moves_made, mines, safes, knowledge, height, width)
       IN  /\ moves_made' = e.moves_made
           /\ safes' = e.safes
           /\ knowledge' = e.knowledge
           /\ mines' = mines
           /\ enter_loop(e.moves_made, mines, e.safes, e.knowledge)
    /\ op' = "add_knowledge"
    /\ dup' = (cell \in moves_made)
    /\ told' = <<cell, count>>
    /\ ret' = None
    /\ UNCHANGED <<height, width, board>>

update_knowledge ==
    /\ pc = "idle"
    /\ enter_loop(moves_made, mines, safes, knowledge)
    /\ op' = "update_knowledge"
    /\ dup' = FALSE
    /\ told' = None
    /\ ret' = None
    /\ UNCHANGED <<height, width, board, moves_made, mines, safes, knowledge, calls>>

update_pass ==
    /\ pc = "update"
    /\ LET r == loop_body(mines, safes, knowledge)
       IN  /\ mines' = r.mines
           /\ safes' = r.safes
           /\ knowledge' = r.knowledge
           /\ base' = Len(r.kept)
           /\ pc' = IF r.updated THEN "update" ELSE "idle"
           /\ tick' = IF r.updated THEN ~tick ELSE FALSE
    /\ mustMines' = mustMines \cup all_mine_cells(knowledge)
    /\ mustSafes' = mustSafes \cup all_safe_cells(knowledge)
    /\ told' = None
    /\ UNCHANGED <<height, width, board, moves_made, op, ret, calls, dup,
                   subSafes, consistent>>

leave_observers ==
    /\ tick' = FALSE
    /\ base' = 0
    /\ mustMines' = {}
    /\ mustSafes' = {}
    /\ subSafes' = {}
    /\ consistent' = TRUE
    /\ dup' = FALSE
    /\ told' = None

mark_mine(cell) ==
    /\ pc = "idle"
    /\ LET st == ai_mark_mine(agent_state(mines, safes, knowledge, FALSE), cell)
       IN  /\ mines' = st.mines
           /\ safes' = st.safes
           /\ knowledge' = st.knowledge
    /\ op' = "mark_mine"
    /\ leave_observers
    /\ ret' = None
    /\ UNCHANGED <<height, width, board, moves_made, pc>>

mark_safe(cell) ==
    /\ pc = "idle"
    /\ LET st == ai_mark_safe(agent_state(mines, safes, knowledge, FALSE), cell)
       IN  /\ mines' = st.mines
           /\ safes' = st.safes
           /\ knowledge' = st.knowledge
    /\ op' = "mark_safe"
    /\ leave_observers
    /\ ret' = None
    /\ UNCHANGED <<height, width, board, moves_made, pc>>

make_safe_move ==
    /\ pc = "idle"
    /\ LET c == safe_moves(safes, moves_made)
       IN  IF c # {} THEN ret' \in c ELSE ret' = None
    /\ op' = "make_safe_move"
    /\ UNCHANGED <<height, width, board, moves_made, mines, safes, knowledge, pc,
                   calls, dup, told, tick, base, mustMines, mustSafes, subSafes, consistent>>

make_random_move ==
    /\ pc = "idle"
    /\ LET c == possible_moves(moves_made, mines, height, width)
       IN  IF c # {} THEN ret' \in c ELSE ret' = None
    /\ op' = "make_random_move"
    /\ UNCHANGED <<height, width, board, moves_made, mines, safes, knowledge, pc,
                   calls, dup, told, tick, base, mustMines, mustSafes, subSafes, consistent>>

\* the board answers a reveal of a cell that holds no mine
reveal ==
    \E cell \in all_cells(height, width) :
        /\ ~is_mine(cell)
        /\ add_knowledge(cell, nearby_mines(cell))
        /\ UNCHANGED calls

\* any caller: any in-bounds cell, any count
tell ==
    /\ calls < MaxCalls
    /\ \E cell \in all_cells(height, width), count \in 0 .. MaxCount :
            add_knowledge(cell, count)
    /\ calls' = calls + 1

call_mark_mine ==
    /\ calls < MaxCalls
    /\ \E cell \in all_cells(height, width) : mark_mine(cell)
    /\ calls' = calls + 1

call_mark_safe ==
    /\ calls < MaxCalls
    /\ \E cell \in all_cells(height, width) : mark_safe(cell)
    /\ calls' = calls + 1

\* ------------------------------------------------------------ specifications
\* MinesweeperAI.__init__
fresh_agent ==
    /\ moves_made = {}
    /\ mines = {}
    /\ safes = {}
    /\ knowledge = <<>>
    /\ pc = "idle"
    /\ op = "init"
    /\ ret = None
    /\ calls = 0
    /\ dup = FALSE
    /\ told = None
    /\ tick = FALSE
    /\ base = 0
    /\ mustMines = {}
    /\ mustSafes = {}
    /\ subSafes = {}
    /\ consistent = TRUE

\* an agent alone, driven through its public methods
Init ==
    /\ \E d \in grids(MaxAgentCells) : height = d[1] /\ width = d[2]
    /\ board = {}
    /\ fresh_agent

Next ==
    \/ tell
    \/ call_mark_mine
    \/ call_mark_safe
    \/ update_knowledge
    \/ update_pass
    \/ make_safe_move
    \/ make_random_move

Spec == Init /\ [][Next]_vars

\* the same agent; a loop that has started goes on making passes
SpecLive == Init /\ [][Next]_vars /\ WF_vars(update_pass)

\* an agent alone on the larger grids, driven through add_knowledge only
InitTold ==
    /\ \E d \in grids(MaxCells) : height = d[1] /\ width = d[2]
    /\ board = {}
    /\ fresh_agent

NextTold ==
    \/ tell
    \/ update_pass

SpecTold == InitTold /\ [][NextTold]_vars

\* a game: Minesweeper.__init__ places the mines, the agent is told the truth
InitGame ==
    /\ \E d \in grids(MaxCells) : height = d[1] /\ width = d[2]
    /\ board \in SUBSET all_cells(height, width)
    /\ fresh_agent

NextGame ==
    \/ reveal
    \/ update_pass
    \/ make_safe_move
    \/ make_random_move

SpecGame == InitGame /\ [][NextGame]_vars

\* the game on the 3 x 3 board whose only mine is at (2, 2)
InitScenario ==
    /\ height = 3
    /\ width = 3
    /\ board = {<<2, 2>>}
    /\ fresh_agent

SpecScenario == InitScenario /\ [][NextGame]_vars

\* ------------------------------------------------------------------- claims
\* the loop of update_knowledge has just returned to its caller
returned == pc = "idle" /\ op \in {"add_knowledge", "update_knowledge"}

\* C1: told only the truth about cells that hold no mine, the agent never has a
\* cell in mines that is no mine of the board, never has a mine of the board in
\* safes, and make_safe_move never returns a mine.
C1_Sound ==
    /\ mines \subseteq board
    /\ safes \cap board = {}
    /\ (op = "make_safe_move" /\ ret # None) => ret \notin board

C1_Witness ==
    /\ op = "make_safe_move"
    /\ ret # None
    /\ mines # {}
    /\ \E rc \in safes \ moves_made : rc \in neighbours_of(ret, height, width)

\* C2: once add_knowledge, mark_mine or mark_safe has completed, no sentence of
\* knowledge holds a cell that is in safes or in mines.
C2_Disjoint ==
    (pc = "idle" /\ op \in {"add_knowledge", "mark_mine", "mark_safe"}) =>
        \A i \in 1 .. Len(knowledge) : knowledge[i].cells \cap (safes \cup mines) = {}

\* C3: told only the truth about cells that hold no mine, safes and mines never
\* share a cell.
C3_NoOverlap == safes \cap mines = {}

C3_Witness ==
    /\ pc = "idle"
    /\ mines # {}
    /\ safes \ moves_made # {}
    /\ knowledge # <<>>

\* C4: an add_knowledge call for a cell already in moves_made changes none of
\* moves_made, safes, mines and knowledge, from its entry to its return.
C4_DuplicateNoOp ==
    [][dup' => UNCHANGED agent]_vars

\* C5: the cells of a sentence that has count = |cells| at the start of a pass
\* of the loop are all in mines when update_knowledge returns.
C5_AllMines == returned => mustMines \subseteq mines

C5_Witness == returned /\ mustMines # {}

\* C6: the cells of a sentence that has count = 0 at the start of a pass of the
\* loop are all in safes when update_knowledge returns.
C6_AllSafe == returned => mustSafes \subseteq safes

C6_Witness == returned /\ mustSafes # {}

\* the pair (A, B) is one the subset-count law speaks of
subtractable(A, B) ==
    /\ ~(A.cells = B.cells /\ A.count = B.count)
    /\ B.cells # {}
    /\ B.cells \subseteq A.cells
    /\ A.count - B.count >= 0

\* C7: for every pair of distinct sentences (A, B) that knowledge held at the
\* pairwise step of the last pass, with B.cells non-empty and within A.cells and
\* A.count - B.count >= 0, knowledge holds a sentence with the cells
\* A.cells - B.cells and the count A.count - B.count at the end of the pass; and
\* when update_knowledge returns this is so for every pair of knowledge.
C7_SubsetCount ==
    /\ base <= Len(knowledge)
    /\ \A i, j \in 1 .. base :
          subtractable(knowledge[i], knowledge[j]) =>
              \E k \in 1 .. Len(knowledge) :
                  /\ knowledge[k].cells = knowledge[i].cells \ knowledge[j].cells
                  /\ knowledge[k].count = knowledge[i].count - knowledge[j].count
    /\ returned => base = Len(knowledge)

C7_Witness ==
    /\ returned
    /\ \E i, j \in 1 .. base : subtractable(knowledge[i], knowledge[j])

\* C8, as the spec states it: on the 3 x 3 board with its mine at (2, 2), once
\* add_knowledge((0, 0), 0) has returned on a fresh agent the 8 other cells are
\* all in safes and (2, 2) is in neither safes nor mines.
C8_AllEightSafe ==
    (pc = "idle" /\ moves_made = {<<0, 0>>}) =>
        /\ safes = all_cells(3, 3) \ {<<2, 2>>}
        /\ <<2, 2>> \notin mines

\* C8, amended: once add_knowledge((0, 0), 0) has returned on a fresh agent,
\* safes is (0,0) and its three neighbours and (2, 2) is in neither safes nor
\* mines; and (2, 2) enters mines only in a pass that starts with a sentence
\* {(2, 2)} = 1 in knowledge, after a reveal of one of its neighbours.
C8_Scenario ==
    [][ /\ (pc' = "idle" /\ moves_made' = {<<0, 0>>}) =>
              /\ safes' = {<<0, 0>>, <<0, 1>>, <<1, 0>>, <<1, 1>>}
              /\ <<2, 2>> \notin mines'
        /\ (<<2, 2>> \notin mines /\ <<2, 2>> \in mines') =>
              /\ pc = "update"
              /\ \E i \in 1 .. Len(knowledge) :
                    knowledge[i].cells = {<<2, 2>>} /\ knowledge[i].count = 1
              /\ moves_made \cap {<<1, 1>>, <<1, 2>>, <<2, 1>>} # {} ]_vars

C8_Witness ==
    /\ <<0, 0>> \in moves_made
    /\ <<2, 2>> \in mines
    /\ pc = "idle"

\* C9, as the claim states it: the cells of A.cells - B.cells, for sentences A
\* and B that knowledge held when update_knowledge started with B.cells a
\* non-empty proper subset of A.cells and equal counts, are all in safes when
\* update_knowledge returns.
C9_RestSafe == returned => subSafes \subseteq safes

\* C9, amended: the same, when some placement of mines agreed with mines, safes
\* and every sentence of knowledge as update_knowledge started.
C9_RestSafeConsistent == (returned /\ consistent) => subSafes \subseteq safes

C9_Witness == returned /\ consistent /\ subSafes # {} /\ subSafes \ moves_made # {}

\* C10: make_safe_move returns a cell of safes that is not in moves_made when
\* there is one, returns None exactly when there is none, and changes none of
\* moves_made, safes, mines and knowledge.
C10_SafeMove ==
    [][op' = "make_safe_move" =>
          /\ UNCHANGED agent
          /\ (safes \ moves_made # {}) => ret' \in safes \ moves_made
          /\ (ret' = None) <=> (safes \ moves_made = {})]_vars

C10_Witness ==
    /\ op = "make_safe_move"
    /\ ret \in safes \ moves_made
    /\ moves_made # {}

\* C11: make_random_move returns a cell inside the grid that is in neither
\* moves_made nor mines when there is one, returns None exactly when every cell
\* of the grid is in moves_made or mines, and changes none of moves_made,
\* safes, mines and knowledge.
C11_RandomMove ==
    [][op' = "make_random_move" =>
          LET open == { rc \in (0 .. height - 1) \X (0 .. width - 1) :
                          rc \notin moves_made /\ rc \notin mines }
          IN  /\ UNCHANGED agent
              /\ open # {} =>
                    /\ ret' \in open
                    /\ 0 <= ret'[1] /\ ret'[1] < height
                    /\ 0 <= ret'[2] /\ ret'[2] < width
              /\ (ret' = None) <=> (open = {})]_vars

C11_Witness ==
    /\ op = "make_random_move"
    /\ ret # None
    /\ mines # {}
    /\ moves_made # {}

C11_WitnessNone ==
    /\ op = "make_random_move"
    /\ ret = None
    /\ mines # {}

\* C12: from any state the agent reaches, for any cell, mark_mine called twice
\* leaves the same mines, safes and sentences as mark_mine called once, and so
\* does mark_safe; no sentence's count goes down by more than one.
C12_MarkTwice ==
    \A c \in all_cells(height, width) :
        LET st == agent_state(mines, safes, knowledge, FALSE)
            m1 == ai_mark_mine(st, c)
            m2 == ai_mark_mine(m1, c)
            s1 == ai_mark_safe(st, c)
            s2 == ai_mark_safe(s1, c)
        IN  /\ m2 = m1
            /\ s2 = s1
            /\ \A i \in 1 .. Len(knowledge) :
                  /\ m2.knowledge[i].count >= knowledge[i].count - 1
                  /\ s2.knowledge[i].count = knowledge[i].count

C12_Witness ==
    /\ op = "mark_mine"
    /\ \E i \in 1 .. Len(knowledge) :
          /\ knowledge[i].mine_cell # {}
          /\ knowledge[i].cells # {}
          /\ knowledge[i].mine_cell \subseteq mines

\* C17: Sentence.mark_mine(c) takes c out of cells and lowers count by one when
\* c is in cells and changes neither otherwise; Sentence.mark_safe(c) takes c
\* out of cells and keeps count when c is in cells and changes nothing
\* otherwise.  Checked for every sentence the agent holds and every cell.
C17_SentenceMarks ==
    \A i \in 1 .. Len(knowledge), c \in all_cells(height, width) :
        LET s == knowledge[i]
            m == Sentence_mark_mine(s, c)
            f == Sentence_mark_safe(s, c)
        IN  IF c \in s.cells
            THEN /\ m.cells = s.cells \ {c} /\ m.count = s.count - 1
                 /\ f.cells = s.cells \ {c} /\ f.count = s.count
            ELSE /\ m.cells = s.cells /\ m.count = s.count
                 /\ f.cells = s.cells /\ f.count = s.count

C17_Witness ==
    /\ pc = "idle"
    /\ \E i, j \in 1 .. Len(knowledge) :
          /\ knowledge[i].mine_cell # {}
          /\ knowledge[j].safe_cell # {}
          /\ knowledge[i].cells # {}
          /\ knowledge[j].cells # {}

\* the grid cells that touch `cell`, sideways or diagonally
touching(cell) ==
    { rc \in (0 .. height - 1) \X (0 .. width - 1) :
        /\ rc # cell
        /\ rc[1] - cell[1] \in {-1, 0, 1}
        /\ rc[2] - cell[2] \in {-1, 0, 1} }

\* C13: add_knowledge(cell, count) for a cell not in moves_made appends, before
\* the loop runs, one sentence whose cells are the grid cells touching cell that
\* are in neither mines nor safes and whose count is count less the number of
\* touching cells in mines; when no such cell is left it appends nothing.
C13_NewSentence ==
    [][(op' = "add_knowledge" /\ pc = "idle" /\ told' # None /\ told'[1] \notin moves_made) =>
          LET cell == told'[1]
              count == told'[2]
              unknown == (touching(cell) \ mines) \ safes
              n == Len(knowledge)
          IN  IF unknown = {}
              THEN knowledge' = knowledge
              ELSE /\ Len(knowledge') = n + 1
                   /\ SubSeq(knowledge', 1, n) = knowledge
                   /\ knowledge'[n + 1].cells = unknown
                   /\ knowledge'[n + 1].count = count - Cardinality(touching(cell) \cap mines)
                   /\ cell \notin knowledge'[n + 1].cells]_vars

C13_Witness ==
    /\ told # None
    /\ ~dup
    /\ touching(told[1]) \cap mines # {}
    /\ touching(told[1]) \cap safes # {}
    /\ knowledge # <<>>
    /\ knowledge[Len(knowledge)].cells = (touching(told[1]) \ mines) \ safes

C13_WitnessNothing ==
    /\ told # None
    /\ ~dup
    /\ touching(told[1]) # {}
    /\ touching(told[1]) \subseteq mines \cup safes
    /\ knowledge # <<>>

\* C14: the loop of update_knowledge, once entered, comes to a pass that changes
\* nothing and returns, whatever the agent's state at entry; so every
\* add_knowledge call returns.
C14_Terminates == (pc = "update") ~> (pc = "idle")

\* C15: in a game played with the board's true neighbour counts for cells that
\* are not mines, every sentence in knowledge has 0 <= count <= |cells|.
C15_CountBounds ==
    \A i \in 1 .. Len(knowledge) :
        /\ 0 <= knowledge[i].count
        /\ knowledge[i].count <= Cardinality(knowledge[i].cells)

\* a sentence has lost a mine cell and its count stands strictly between the
\* two bounds
C15_Witness ==
    /\ op = "add_knowledge"
    /\ \E i \in 1 .. Len(knowledge) :
          /\ knowledge[i].mine_cell # {}
          /\ 0 < knowledge[i].count
          /\ knowledge[i].count < Cardinality(knowledge[i].cells)

\* C16: every sentence a pass of the loop appends in its pairwise step is the
\* difference of two sentences kept by that pass, has a count >= 0, and equals
\* (same cells, same count) no sentence standing before it in knowledge,
\* whether that one was kept or derived in the same pass.
C16_Discarded ==
    [][pc = "update" =>
          LET K == knowledge'
              b == base'
          IN  /\ b <= Len(K)
              /\ \A j \in (b + 1) .. Len(K) :
                    /\ K[j].count >= 0
                    /\ \A i \in 1 .. (j - 1) : ~Sentence_eq(K[i], K[j])
                    /\ \E a, c \in 1 .. b :
                          /\ combinable(K[a], K[c])
                          /\ K[j].cells = K[a].cells \ K[c].cells
                          /\ K[j].count = K[a].count - K[c].count]_vars

\* the last pass appended a sentence and met a pair whose difference has a
\* negative count
C16_Witness ==
    /\ op \in {"add_knowledge", "update_knowledge"}
    /\ base > 0
    /\ Len(knowledge) > base
    /\ \E a, c \in 1 .. base :
          /\ combinable(knowledge[a], knowledge[c])
          /\ knowledge[a].count - knowledge[c].count < 0

\* the last pass met a pair whose difference was in knowledge already
C16_WitnessPresent ==
    /\ op \in {"add_knowledge", "update_knowledge"}
    /\ base > 0
    /\ \E a, c, i \in 1 .. base :
          /\ combinable(knowledge[a], knowledge[c])
          /\ knowledge[a].count - knowledge[c].count >= 0
          /\ knowledge[i].cells = knowledge[a].cells \ knowledge[c].cells
          /\ knowledge[i].count = knowledge[a].count - knowledge[c].count

\* the last pass derived the sentence it appended from two different pairs
C16_WitnessTwice ==
    /\ op \in {"add_knowledge", "update_knowledge"}
    /\ base > 0
    /\ \E a, c, e, f \in 1 .. base : \E j \in (base + 1) .. Len(knowledge) :
          /\ <<a, c>> # <<e, f>>
          /\ combinable(knowledge[a], knowledge[c])
          /\ combinable(knowledge[e], knowledge[f])
          /\ knowledge[j].cells = knowledge[a].cells \ knowledge[c].cells
          /\ knowledge[j].cells = knowledge[e].cells \ knowledge[f].cells
          /\ knowledge[j].count = knowledge[a].count - knowledge[c].count
          /\ knowledge[j].count = knowledge[e].count - knowledge[f].count

\* C18: in every state the agent reaches by any sequence of its operations,
\* every cell of moves_made is in safes.
C18_PlayedSafe == moves_made \subseteq safes

\* a played cell that a direct mark_mine has put in mines as well
C18_Witness ==
    /\ op = "mark_mine"
    /\ moves_made \cap mines # {}

\* C19: no operation of the agent, and no pass of the loop, takes a cell out of
\* moves_made, safes or mines.
C19_Monotone ==
    [][/\ moves_made \subseteq moves_made'
       /\ safes \subseteq safes'
       /\ mines \subseteq mines']_vars

\* a direct mark_safe of a cell that is in mines has left it there
C19_Witness ==
    /\ op = "mark_safe"
    /\ moves_made # {}
    /\ (safes \cap mines) \ moves_made # {}

\* C20: when add_knowledge or update_knowledge has returned, no sentence in
\* knowledge has an empty set of cells.
C20_NoEmpty ==
    returned => \A i \in 1 .. Len(knowledge) : knowledge[i].cells # {}

\* update_knowledge, called after direct marks, has returned from a loop that
\* resolved a sentence into mines and left others in knowledge
C20_Witness ==
    /\ returned
    /\ op = "update_knowledge"
    /\ mustMines # {}
    /\ knowledge # <<>>

\* add_knowledge has returned from a loop that resolved a sentence into safes
\* and left others in knowledge
C20_WitnessSafes ==
    /\ returned
    /\ op = "add_knowledge"
    /\ mustSafes # {}
    /\ knowledge # <<>>

====
